---- MODULE Spec2Model ----
(***************************************************************************)
(* Model of the e-mail routing agent of src/app_emailtest.py               *)
(* (class EmailRoutingAgent) and of the ShipmentRoutingAgent of            *)
(* src/app_email.py.  Python strings are TLA+ strings, i.e. sequences of   *)
(* characters; Python lists are sequences; dicts are                       *)
(* functions/records (the empty dict {} is the function with empty         *)
(* domain).  A message handed to route_email is described by what          *)
(* email.message_from_string yields for it: its headers, its content type  *)
(* and its payload or parts.                                               *)
(***************************************************************************)
EXTENDS Integers, Sequences, FiniteSets, TLC

VARIABLES routing_rules,    \* self.routing_rules
          routing_stats,    \* self.routing_stats
          eml_content,      \* argument of the latest route_email call
          routing_result,   \* value returned by the latest route_email call
          phase,            \* "new" | "idle" | "called" | "returned"
          routing_error,    \* message of the exception the latest call caught
          rules_tried,      \* positions of the rules the latest call evaluated
          callers,          \* the frames of the threads that call route_email
          decisions_returned, \* per queue, the decisions handed back so far
          shipment_agent,   \* the ShipmentRoutingAgent object of app_email.py
          shipment_calls,   \* its latest calls and the client calls they made
          helper_call,      \* a direct call of one of the agent's helper methods
          temp_msg,         \* the file "temp.msg" of the working directory
          extractions       \* the frames of the extract_text_from_file calls

vars == <<routing_rules, routing_stats, eml_content, routing_result, phase,
          routing_error, rules_tried, callers, decisions_returned,
          shipment_agent, shipment_calls, helper_call, temp_msg, extractions>>

(***************************************************************************)
(* Bounds of the model.                                                    *)
(***************************************************************************)
MaxCalls == 3
MaxParts == 2

(***************************************************************************)
(* String primitives of Python used by the agent.                          *)
(***************************************************************************)
CharAt(s, i) == SubSeq(s, i, i)

EmptyDict == [x \in {} |-> x]

\* str.lower() on the ASCII letters
LowerTable ==
    [c \in {"A","B","C","D","E","F","G","H","I","J","K","L","M",
            "N","O","P","Q","R","S","T","U","V","W","X","Y","Z"} |->
       CASE c = "A" -> "a" [] c = "B" -> "b" [] c = "C" -> "c" [] c = "D" -> "d"
         [] c = "E" -> "e" [] c = "F" -> "f" [] c = "G" -> "g" [] c = "H" -> "h"
         [] c = "I" -> "i" [] c = "J" -> "j" [] c = "K" -> "k" [] c = "L" -> "l"
         [] c = "M" -> "m" [] c = "N" -> "n" [] c = "O" -> "o" [] c = "P" -> "p"
         [] c = "Q" -> "q" [] c = "R" -> "r" [] c = "S" -> "s" [] c = "T" -> "t"
         [] c = "U" -> "u" [] c = "V" -> "v" [] c = "W" -> "w" [] c = "X" -> "x"
         [] c = "Y" -> "y" [] c = "Z" -> "z"]

LowerChar(c) == IF c \in DOMAIN LowerTable THEN LowerTable[c] ELSE c

RECURSIVE lower(_)
lower(s) ==
    IF Len(s) = 0 THEN ""
    ELSE LowerChar(CharAt(s, 1)) \o lower(SubSeq(s, 2, Len(s)))

\* Python's `k in t` on strings
Contains(t, k) ==
    \E i \in 1..(Len(t) - Len(k) + 1) : SubSeq(t, i, i + Len(k) - 1) = k

IsSpace(c) == c \in {" ", "\t", "\n", "\r"}

\* str.strip()
RECURSIVE lstrip(_)
lstrip(s) ==
    IF Len(s) > 0 /\ IsSpace(CharAt(s, 1)) THEN lstrip(SubSeq(s, 2, Len(s))) ELSE s

RECURSIVE rstrip(_)
rstrip(s) ==
    IF Len(s) > 0 /\ IsSpace(CharAt(s, Len(s)))
    THEN rstrip(SubSeq(s, 1, Len(s) - 1)) ELSE s

strip(s) == rstrip(lstrip(s))

\* repr() of a list of strings, as an f-string prints it
RECURSIVE ReprItems(_)
ReprItems(l) ==
    IF Len(l) = 0 THEN ""
    ELSE IF Len(l) = 1 THEN "'" \o l[1] \o "'"
    ELSE "'" \o l[1] \o "', " \o ReprItems(Tail(l))

ListRepr(l) == "[" \o ReprItems(l) \o "]"

(***************************************************************************)
(* RoutingQueue and the rule table.                                        *)
(***************************************************************************)
SHIPMENT_INITIATION_BRKG_INLAND_SI == "Shipment_Initiation_Brkg_Inland_SI"
ACCOUNT_INQUIRY_US == "Account_Inquiry_US"
ORD_SI_NON_UPS_SHIPMENTS == "ORD_SI-Non_UPS_Shipments"
RAFT_PRE_ALERT == "RAFT_PreAlert"
RAFT_ARRIVAL_NOTICE == "RAFT_ArrivalNotice"

RoutingQueue ==
    {SHIPMENT_INITIATION_BRKG_INLAND_SI, ACCOUNT_INQUIRY_US,
     ORD_SI_NON_UPS_SHIPMENTS, RAFT_PRE_ALERT, RAFT_ARRIVAL_NOTICE}

rule_account_inquiry ==
    [rule_id |-> 2,
     queue |-> ACCOUNT_INQUIRY_US,
     description |-> "Account Inquiry emails with specific terms",
     scenario |-> "Customer Account Setup/POA Request",
     action |-> "Route to Account Management Team for customer onboarding or Power of Attorney processing",
     priority |-> "HIGH",
     sla |-> "4 hours",
     conditions |->
         [subject_contains |->
              <<"power of attorney", "poa", "account needed", "account setup">>,
          check_attachments |-> TRUE]]

rule_evergreen_domain ==
    [rule_id |-> 3,
     queue |-> ORD_SI_NON_UPS_SHIPMENTS,
     description |-> "Emails from Evergreen Line domain",
     scenario |-> "External Shipping Partner Communication",
     action |-> "Process as non-UPS shipment documentation from Evergreen Marine",
     priority |-> "MEDIUM",
     sla |-> "8 hours",
     conditions |-> [from_domain |-> "@mail.evergreen-line.com"]]

rule_pre_alert ==
    [rule_id |-> 4,
     queue |-> RAFT_PRE_ALERT,
     description |-> "RAFT Pre-Alert emails",
     scenario |-> "Vessel/Container Pre-Alert Notification",
     action |-> "Prepare for incoming container arrival, notify warehouse teams",
     priority |-> "HIGH",
     sla |-> "2 hours",
     conditions |->
         [subject_contains |-> <<"pre-alert", "pre alert", "prealert">>]]

rule_arrival_notice ==
    [rule_id |-> 5,
     queue |-> RAFT_ARRIVAL_NOTICE,
     description |-> "RAFT Arrival Notice emails",
     scenario |-> "Container/Shipment Arrival Confirmation",
     action |-> "Update tracking systems, notify customers, coordinate pickup scheduling",
     priority |-> "HIGH",
     sla |-> "1 hour",
     conditions |-> [subject_or_body_contains |-> <<"arrival notice">>]]

\* mutation: the last rule's conditions are {"default": False}
rule_default_disabled ==
    [rule_id |-> 1,
     queue |-> SHIPMENT_INITIATION_BRKG_INLAND_SI,
     description |-> "Default rule - all other emails",
     scenario |-> "General Shipment/Logistics Communication",
     action |-> "Process as standard shipment initiation or brokerage inland SI request",
     priority |-> "NORMAL",
     sla |-> "24 hours",
     conditions |-> [default |-> FALSE]]

\* mutation: the default rule is given another id
rule_default_renumbered ==
    [rule_id |-> 6,
     queue |-> SHIPMENT_INITIATION_BRKG_INLAND_SI,
     description |-> "Default rule - all other emails",
     scenario |-> "General Shipment/Logistics Communication",
     action |-> "Process as standard shipment initiation or brokerage inland SI request",
     priority |-> "NORMAL",
     sla |-> "24 hours",
     conditions |-> [default |-> TRUE]]

rule_default ==
    [rule_id |-> 1,
     queue |-> SHIPMENT_INITIATION_BRKG_INLAND_SI,
     description |-> "Default rule - all other emails",
     scenario |-> "General Shipment/Logistics Communication",
     action |-> "Process as standard shipment initiation or brokerage inland SI request",
     priority |-> "NORMAL",
     sla |-> "24 hours",
     conditions |-> [default |-> TRUE]]

\* mutation: the default rule is missing from the table
rules_without_default ==
    <<rule_account_inquiry, rule_evergreen_domain, rule_pre_alert,
      rule_arrival_notice>>

\* mutation: the default rule is declared before the arrival-notice rule
rules_default_not_last ==
    <<rule_account_inquiry, rule_evergreen_domain, rule_pre_alert,
      rule_default, rule_arrival_notice>>

\* mutation: the pre-alert rule is declared before the domain rule
rules_pre_alert_before_domain ==
    <<rule_account_inquiry, rule_pre_alert, rule_evergreen_domain,
      rule_arrival_notice, rule_default>>

\* _initialize_routing_rules: the rules in their declared order
initialize_routing_rules ==
    <<rule_account_inquiry, rule_evergreen_domain, rule_pre_alert,
      rule_arrival_notice, rule_default>>

(***************************************************************************)
(* parse_eml_file.  A message is [kind |-> "text", headers, ctype,         *)
(* payload, parts]: headers maps the header names present to their values, *)
(* ctype is the content type of the message, payload its body when it is   *)
(* not multipart, parts its sub-parts when it is (each [ctype, payload,    *)
(* filename], filename "" when the part has none).  [kind |-> "bytes"] is  *)
(* content that is not a str, for which message_from_string raises and     *)
(* parse_eml_file returns {}.  Header values are str: main decodes the     *)
(* upload as UTF-8, so msg.get never yields a Header object.               *)
(***************************************************************************)
\* msg.get(name, "")
msg_get(msg, name) ==
    IF name \in DOMAIN msg.headers THEN msg.headers[name] ELSE ""

is_multipart(msg) == msg.ctype = "multipart/mixed"

\* the loop `for part in msg.walk()` over the sub-parts; acc is email_data
RECURSIVE walk_parts(_, _)
walk_parts(parts, acc) ==
    IF Len(parts) = 0 THEN acc
    ELSE LET part == Head(parts)
             nxt  == IF part.ctype = "text/plain"
                     THEN [acc EXCEPT !.body = @ \o part.payload]
                     ELSE IF part.ctype = "text/html"
                     THEN [acc EXCEPT !.body = @ \o part.payload,
                                      !.is_html = TRUE]
                     ELSE IF part.filename # ""
                     THEN [acc EXCEPT !.attachments = Append(@, part.filename)]
                     ELSE acc
         IN  walk_parts(Tail(parts), nxt)

parse_eml_file(msg) ==
    IF msg.kind # "text" THEN EmptyDict
    ELSE LET email_data ==
                 [message_id  |-> msg_get(msg, "Message-ID"),
                  from        |-> msg_get(msg, "From"),
                  to          |-> msg_get(msg, "To"),
                  cc          |-> msg_get(msg, "Cc"),
                  subject     |-> msg_get(msg, "Subject"),
                  date        |-> msg_get(msg, "Date"),
                  reply_to    |-> msg_get(msg, "Reply-To"),
                  priority    |-> msg_get(msg, "X-Priority"),
                  body        |-> "",
                  attachments |-> <<>>,
                  is_html     |-> FALSE]
         IN  IF is_multipart(msg)
             THEN walk_parts(msg.parts, email_data)
             ELSE [email_data EXCEPT !.body = msg.payload,
                                     !.is_html = (msg.ctype = "text/html")]

(***************************************************************************)
(* extract_from_domain: the two re.search calls.                           *)
(***************************************************************************)
Min(S) == CHOOSE x \in S : \A y \in S : x <= y

\* first position > i of character c in s, or Len(s) + 1
NextPos(s, c, i) ==
    LET S == {j \in (i + 1)..Len(s) : CharAt(s, j) = c}
    IN  IF S = {} THEN Len(s) + 1 ELSE Min(S)

\* re.search(r'<([^>]+)>', s): the start positions at which the pattern matches
AngleStarts(s) ==
    {i \in 1..Len(s) : /\ CharAt(s, i) = "<"
                       /\ i + 1 <= Len(s)
                       /\ CharAt(s, i + 1) # ">"
                       /\ NextPos(s, ">", i) <= Len(s)}

\* re.search(r'@([^@]+)', s): the start positions at which the pattern matches
AtStarts(s) ==
    {i \in 1..Len(s) : /\ CharAt(s, i) = "@"
                       /\ i + 1 <= Len(s)
                       /\ CharAt(s, i + 1) # "@"}

\* mutation: only the first attachment name is looked at
check_first_attachment_only(attachments, keywords) ==
    IF Len(attachments) = 0 THEN FALSE
    ELSE \E n \in 1..Len(attachments) :
             n = 1 /\ \E k \in 1..Len(keywords) :
                         Contains(lower(attachments[n]), lower(keywords[k]))

extract_from_domain(from_address) ==
    LET am == AngleStarts(from_address)
        email_addr ==
            IF am # {}
            THEN SubSeq(from_address, Min(am) + 1,
                        NextPos(from_address, ">", Min(am)) - 1)
            ELSE strip(from_address)
        dm == AtStarts(email_addr)
    IN  IF dm # {}
        THEN "@" \o SubSeq(email_addr, Min(dm) + 1,
                           NextPos(email_addr, "@", Min(dm)) - 1)
        ELSE ""

(***************************************************************************)
(* Keyword matching.                                                       *)
(***************************************************************************)
\* mutation: the text is not lower-cased before the search
check_text_contains_case_sensitive(text, keywords) ==
    IF text = "" THEN FALSE
    ELSE \E n \in 1..Len(keywords) : Contains(text, lower(keywords[n]))

\* mutation: the method lacks the `if not text` guard
check_text_contains_unguarded(text, keywords) ==
    \E n \in 1..Len(keywords) : Contains(lower(text), lower(keywords[n]))

check_text_contains(text, keywords) ==
    IF text = "" THEN FALSE
    ELSE LET text_lower == lower(text)
         IN  \E n \in 1..Len(keywords) : Contains(text_lower, lower(keywords[n]))

check_attachment_naming(attachments, keywords) ==
    IF Len(attachments) = 0 THEN FALSE
    ELSE \E n \in 1..Len(attachments) :
             check_text_contains(attachments[n], keywords)

\* conditions.get(key, False)
cond_get(conditions, key) ==
    IF key \in DOMAIN conditions THEN conditions[key] ELSE FALSE

(***************************************************************************)
(* apply_routing_rule returns the pair (matched, reason).                  *)
(***************************************************************************)
apply_routing_rule(email_data, rule) ==
    LET conditions == rule.conditions
    IN  IF "subject_contains" \in DOMAIN conditions /\ rule.rule_id = 2
        THEN LET subject_match ==
                     check_text_contains(email_data.subject,
                                         conditions.subject_contains)
                 attachment_match ==
                     IF cond_get(conditions, "check_attachments")
                     THEN check_attachment_naming(email_data.attachments,
                                                  conditions.subject_contains)
                     ELSE FALSE
             IN  IF subject_match
                 THEN [matched |-> TRUE,
                       reason |-> "Subject contains account-related keywords: "
                                  \o ListRepr(conditions.subject_contains)]
                 ELSE IF attachment_match
                 THEN [matched |-> TRUE,
                       reason |-> "Attachment names contain account-related keywords"]
                 ELSE [matched |-> FALSE, reason |-> ""]
        ELSE IF "from_domain" \in DOMAIN conditions
        THEN LET from_domain == extract_from_domain(email_data.from)
             IN  IF from_domain = conditions.from_domain
                 THEN [matched |-> TRUE,
                       reason |-> "Email from Evergreen Line domain: " \o from_domain]
                 ELSE [matched |-> FALSE,
                       reason |-> "Domain " \o from_domain \o " does not match "
                                  \o conditions.from_domain]
        ELSE IF "subject_contains" \in DOMAIN conditions /\ rule.rule_id = 4
        THEN IF check_text_contains(email_data.subject, conditions.subject_contains)
             THEN [matched |-> TRUE,
                   reason |-> "Subject contains pre-alert keywords: "
                              \o ListRepr(conditions.subject_contains)]
             ELSE [matched |-> FALSE, reason |-> ""]
        ELSE IF "subject_or_body_contains" \in DOMAIN conditions
        THEN LET keywords == conditions.subject_or_body_contains
                 subject_match == check_text_contains(email_data.subject, keywords)
                 body_match == check_text_contains(email_data.body, keywords)
             IN  IF subject_match
                 THEN [matched |-> TRUE,
                       reason |-> "Subject contains arrival notice keywords: "
                                  \o ListRepr(keywords)]
                 ELSE IF body_match
                 THEN [matched |-> TRUE,
                       reason |-> "Body contains arrival notice keywords: "
                                  \o ListRepr(keywords)]
                 ELSE [matched |-> FALSE, reason |-> ""]
        ELSE IF cond_get(conditions, "default")
        THEN [matched |-> TRUE,
              reason |-> "No specific rules matched, applying default routing"]
        ELSE [matched |-> FALSE, reason |-> ""]

(***************************************************************************)
(* route_email.  The loop `for rule in self.routing_rules` returns at the  *)
(* first rule that matches; first_match is that rule's position, 0 when    *)
(* the loop runs off the end ("No routing rule matched").                  *)
(***************************************************************************)
\* mutation: the loop does not stop at the first rule that matches
last_match(email_data, rules, n) ==
    LET S == {m \in n..Len(rules) : apply_routing_rule(email_data, rules[m]).matched}
    IN  IF S = {} THEN 0 ELSE CHOOSE m \in S : \A k \in S : k <= m

RECURSIVE first_match(_, _, _)
first_match(email_data, rules, n) ==
    IF n > Len(rules) THEN 0
    ELSE IF apply_routing_rule(email_data, rules[n]).matched THEN n
    ELSE first_match(email_data, rules, n + 1)

\* mutation: the loop evaluates every rule, whether or not one has matched
rules_evaluated_all(email_data, rules, n) ==
    [i \in 1..(Len(rules) - n + 1) |-> n + i - 1]

\* the positions at which the loop calls apply_routing_rule, in call order
RECURSIVE rules_evaluated(_, _, _)
rules_evaluated(email_data, rules, n) ==
    IF n > Len(rules) THEN <<>>
    ELSE IF apply_routing_rule(email_data, rules[n]).matched THEN <<n>>
    ELSE <<n>> \o rules_evaluated(email_data, rules, n + 1)

\* mutation: the default rule is taken to be the rule with id 5
confidence_by_wrong_id(rule) == IF rule.rule_id # 5 THEN "HIGH" ELSE "DEFAULT"

\* "HIGH" if rule["rule_id"] != 1 else "DEFAULT"
confidence_of(rule) == IF rule.rule_id # 1 THEN "HIGH" ELSE "DEFAULT"

\* mutation: the default rule's decision carries no reason
reason_missing_for_default(email_data, rule) ==
    IF "default" \in DOMAIN rule.conditions THEN ""
    ELSE apply_routing_rule(email_data, rule).reason

\* `matched, reason = self.apply_routing_rule(email_data, rule)`: the reason
match_reason_of(email_data, rule) == apply_routing_rule(email_data, rule).reason

\* the routing_result dict (routing_timestamp, a clock reading, is left out)
make_routing_result(email_data, rule) ==
    [routing_queue    |-> rule.queue,
     rule_matched     |-> rule.rule_id,
     rule_description |-> rule.description,
     scenario         |-> rule.scenario,
     action           |-> rule.action,
     priority         |-> rule.priority,
     sla              |-> rule.sla,
     match_reason     |-> match_reason_of(email_data, rule),
     email_data       |-> email_data,
     confidence       |-> confidence_of(rule)]

\* mutation: the per-queue count is not incremented
count_total_only(stats, queue) ==
    [total_processed |-> stats.total_processed + 1,
     rules_matched |-> stats.rules_matched]

\* the two statements `self.routing_stats[...] += 1` that follow the
\* construction of routing_result
count_decision(stats, queue) ==
    [total_processed |-> stats.total_processed + 1,
     rules_matched |-> [stats.rules_matched EXCEPT ![queue] = @ + 1]]

\* mutation: the call is counted on entry, before the message is parsed
route_email_counting_first(rules, stats, msg) ==
    LET email_data == parse_eml_file(msg)
        counted == [stats EXCEPT !.total_processed = @ + 1]
    IN  IF DOMAIN email_data = {}
        THEN [result |-> EmptyDict, stats |-> counted,
              error |-> "Failed to parse email", tried |-> <<>>]
        ELSE LET n == first_match(email_data, rules, 1)
                 tried == rules_evaluated(email_data, rules, 1)
             IN  IF n = 0
                 THEN [result |-> EmptyDict, stats |-> counted,
                       error |-> "No routing rule matched", tried |-> tried]
                 ELSE [result |-> make_routing_result(email_data, rules[n]),
                       stats |-> [counted EXCEPT !.rules_matched[rules[n].queue] = @ + 1],
                       error |-> "", tried |-> tried]

\* mutation: a queue that has already received a message counts as full and
\* the next message for it is sent on to the last rule of the table
route_email_spilling_over(rules, stats, msg) ==
    LET email_data == parse_eml_file(msg)
    IN  IF DOMAIN email_data = {}
        THEN [result |-> EmptyDict, stats |-> stats,
              error |-> "Failed to parse email", tried |-> <<>>]
        ELSE LET m == first_match(email_data, rules, 1)
                 tried == rules_evaluated(email_data, rules, 1)
                 n == IF m # 0 /\ stats.rules_matched[rules[m].queue] >= 1
                      THEN Len(rules) ELSE m
             IN  IF n = 0
                 THEN [result |-> EmptyDict, stats |-> stats,
                       error |-> "No routing rule matched", tried |-> tried]
                 ELSE [result |-> make_routing_result(email_data, rules[n]),
                       stats |-> count_decision(stats, rules[n].queue),
                       error |-> "", tried |-> tried]

\* the value route_email returns, the statistics it leaves behind, the
\* message of the exception it caught ("" when it caught none) and the
\* positions of the rules its loop evaluated
route_email(rules, stats, msg) ==
    LET email_data == parse_eml_file(msg)
    IN  IF DOMAIN email_data = {}
        THEN [result |-> EmptyDict, stats |-> stats,
              error |-> "Failed to parse email", tried |-> <<>>]
        ELSE LET n == first_match(email_data, rules, 1)
                 tried == rules_evaluated(email_data, rules, 1)
             IN  IF n = 0
                 THEN [result |-> EmptyDict, stats |-> stats,
                       error |-> "No routing rule matched", tried |-> tried]
                 ELSE [result |-> make_routing_result(email_data, rules[n]),
                       stats |-> count_decision(stats, rules[n].queue),
                       error |-> "", tried |-> tried]

(***************************************************************************)
(* The messages the model routes.                                          *)
(***************************************************************************)
EVERGREEN == "mail.evergreen-line.com"

SenderDomains ==
    {EVERGREEN, "MAIL.EVERGREEN-LINE.COM", "Mail.Evergreen-Line.com",
     "sub.mail.evergreen-line.com", "mail.evergreen-line.com.evil.org",
     "evergreen-line.com", "xmail.evergreen-line.com", "supplier.com"}

Froms ==
    UNION {{"ops@" \o d, "Ops <ops@" \o d \o ">"} : d \in SenderDomains}
    \cup {"", "no-at-sign", "  ops@mail.evergreen-line.com ",
          "x@mail.evergreen-line.com@evil.com",
          "\"a@mail.evergreen-line.com@b\"@evil.com",
          "<> x@mail.evergreen-line.com",
          "Evil <a@evil.com> b@mail.evergreen-line.com",
          "ops@mail.evergreen-line.com (Ops)",
          "Ops <ops@mail.evergreen-line.com >"}

Subjects ==
    {"", "POWER OF ATTORNEY needed", "power of attorney needed", "RE: POA",
     "Account Needed", "account setup", "p.o.a", "account  setup",
     "Shipment Pre-Alert - Container EVGU123456789", "pre alert", "PREALERT",
     "pre_alert", "FW: Arrival Notice", "arrival  notice",
     "Invoice Payment Question", "POA Pre-Alert", "Pre-Alert Arrival Notice"}

Payloads ==
    {"", "Question about recent invoice.",
     "Please find the ARRIVAL NOTICE attached.", "power of attorney"}

Parts ==
    {[ctype |-> "text/plain", payload |-> "See the Arrival Notice. ", filename |-> ""],
     [ctype |-> "text/html", payload |-> "<b>hello</b>", filename |-> ""],
     [ctype |-> "application/pdf", payload |-> "", filename |-> "POA_signed.pdf"],
     [ctype |-> "application/pdf", payload |-> "", filename |-> "invoice.pdf"]}

PlainContents ==
    {[ctype |-> "text/plain", payload |-> b, parts |-> <<>>] : b \in Payloads}
    \cup {[ctype |-> "text/html", payload |-> "<p>Arrival notice</p>", parts |-> <<>>]}

MultipartContents ==
    {[ctype |-> "multipart/mixed", payload |-> "", parts |-> ps] :
         ps \in UNION {[1..n -> Parts] : n \in 1..MaxParts}}

\* senders and subjects of the multipart messages
MultipartFroms ==
    {"ops@supplier.com", "Ops <ops@mail.evergreen-line.com>",
     "ops@MAIL.EVERGREEN-LINE.COM"}

MultipartSubjects ==
    {"", "Invoice Payment Question", "RE: POA",
     "Shipment Pre-Alert - Container EVGU123456789", "FW: Arrival Notice"}

\* the header maps: a header is present with a value, or absent
HeaderMaps(name, values) == {EmptyDict} \cup {(name :> v) : v \in values}

Message(headers, content) ==
    [kind |-> "text", headers |-> headers, ctype |-> content.ctype,
     payload |-> content.payload, parts |-> content.parts]

Documents ==
    {Message(fh @@ sh, c) : fh \in HeaderMaps("From", Froms),
                            sh \in HeaderMaps("Subject", Subjects),
                            c \in PlainContents}
    \cup {Message(fh @@ sh, c) : fh \in HeaderMaps("From", MultipartFroms),
                                 sh \in HeaderMaps("Subject", MultipartSubjects),
                                 c \in MultipartContents}

NotText == [kind |-> "bytes"]

Inputs == Documents \cup {NotText}

\* the uploads of the session that routes several messages in a row
Uploads ==
    {Message(("From" :> f) @@ ("Subject" :> sj), [ctype |-> "text/plain", payload |-> b, parts |-> <<>>]) :
         f \in {"vendor@supplier.com", "Ops <ops@mail.evergreen-line.com>"},
         sj \in {"Invoice Payment Question", "POA", "Pre-Alert"},
         b \in {"", "arrival notice"}}
    \cup {NotText}

(***************************************************************************)
(* ShipmentRoutingAgent of src/app_email.py.  Confidences are kept in      *)
(* hundredths (0.5 is 50), so that min(1.0, c + 0.1) is Min({100, c+10}).  *)
(* The content handed to the agent is the text of a message; Content gives *)
(* the text together with the From and Subject that parse_email_content    *)
(* reads back from it.                                                     *)
(***************************************************************************)
\* _load_routing_rules()["routing_queues"]: description, escalation contact
\* and autonomous_actions of each queue
load_routing_rules ==
    ("Account_Inquiry_US" :>
         [description |-> "POA, Account Setup, Account Needed requests",
          escalation |-> "account.manager@ups.com",
          autonomous_actions |->
              <<"auto_acknowledge", "priority_flag", "legal_review_trigger">>])
    @@ ("ORD_SI-Non_UPS_Shipments" :>
         [description |-> "Emails from Evergreen Line and other external carriers",
          escalation |-> "carrier.manager@ups.com",
          autonomous_actions |->
              <<"auto_acknowledge", "carrier_sync", "tracking_update">>])
    @@ ("ORD_Pre-Alert_SI" :>
         [description |-> "Pre-Alert notifications for incoming shipments",
          escalation |-> "operations.supervisor@ups.com",
          autonomous_actions |->
              <<"auto_acknowledge", "schedule_coordination", "resource_allocation">>])
    @@ ("ORD_Ocean_Arrival_Notices" :>
         [description |-> "Ocean arrival notices and port notifications",
          escalation |-> "port.supervisor@ups.com",
          autonomous_actions |->
              <<"auto_acknowledge", "customs_notification", "pickup_scheduling">>])
    @@ ("Shipment_Initiation_Brkg_Inland_SI" :>
         [description |-> "Default queue for general shipment initiations and brokerage",
          escalation |-> "processing.manager@ups.com",
          autonomous_actions |->
              <<"auto_acknowledge", "route_optimization", "capacity_check">>])

\* any(word in text for word in words)
any_in(words, text) == \E w \in words : Contains(text, w)

\* x in l, for a list l
in_list(x, l) == \E i \in DOMAIN l : l[i] = x

\* parse_email_content: the From and Subject header of the content
parse_email_content(content) == [from |-> content.from, subject |-> content.subject]

\* mutation: the subject is examined for a pre-alert before the sender is
\* examined for a carrier
detect_patterns_subject_first(content, email_data) ==
    LET content_lower == lower(content.text)
        subject == lower(email_data.subject)
        sender == lower(email_data.from)
        typed ==
            IF any_in({"power of attorney", "poa", "account setup",
                       "legal authorization"}, content_lower)
            THEN [email_type |-> "legal_documentation", sender_type |-> "unknown",
                  content_indicators |-> <<"legal_documents">>]
            ELSE IF any_in({"pre-alert", "prealert", "advance notice"}, subject)
            THEN [email_type |-> "operational_notification", sender_type |-> "unknown",
                  content_indicators |-> <<"pre_alert_notification">>]
            ELSE IF any_in({"evergreen", "carrier", "shipping"}, sender)
            THEN [email_type |-> "carrier_communication",
                  sender_type |-> "external_carrier", content_indicators |-> <<>>]
            ELSE IF any_in({"arrival notice", "port arrival", "vessel arrived"},
                           content_lower)
            THEN [email_type |-> "arrival_notification", sender_type |-> "unknown",
                  content_indicators |-> <<"arrival_notice">>]
            ELSE [email_type |-> "unknown", sender_type |-> "unknown",
                  content_indicators |-> <<>>]
        urgent == IF any_in({"urgent", "asap", "immediate", "critical"}, content_lower)
                  THEN <<"high_urgency">> ELSE <<>>
        customs == IF any_in({"customs", "clearance", "duties", "taxes"}, content_lower)
                   THEN <<"customs_required">> ELSE <<>>
    IN  [email_type |-> typed.email_type,
         sender_type |-> typed.sender_type,
         content_indicators |-> typed.content_indicators,
         business_signals |-> urgent \o customs]

\* _detect_patterns (structural_elements, which no decision reads, left out)
detect_patterns(content, email_data) ==
    LET content_lower == lower(content.text)
        subject == lower(email_data.subject)
        sender == lower(email_data.from)
        typed ==
            IF any_in({"power of attorney", "poa", "account setup",
                       "legal authorization"}, content_lower)
            THEN [email_type |-> "legal_documentation", sender_type |-> "unknown",
                  content_indicators |-> <<"legal_documents">>]
            ELSE IF any_in({"evergreen", "carrier", "shipping"}, sender)
            THEN [email_type |-> "carrier_communication",
                  sender_type |-> "external_carrier", content_indicators |-> <<>>]
            ELSE IF any_in({"pre-alert", "prealert", "advance notice"}, subject)
            THEN [email_type |-> "operational_notification", sender_type |-> "unknown",
                  content_indicators |-> <<"pre_alert_notification">>]
            ELSE IF any_in({"arrival notice", "port arrival", "vessel arrived"},
                           content_lower)
            THEN [email_type |-> "arrival_notification", sender_type |-> "unknown",
                  content_indicators |-> <<"arrival_notice">>]
            ELSE [email_type |-> "unknown", sender_type |-> "unknown",
                  content_indicators |-> <<>>]
        urgent == IF any_in({"urgent", "asap", "immediate", "critical"}, content_lower)
                  THEN <<"high_urgency">> ELSE <<>>
        customs == IF any_in({"customs", "clearance", "duties", "taxes"}, content_lower)
                   THEN <<"customs_required">> ELSE <<>>
    IN  [email_type |-> typed.email_type,
         sender_type |-> typed.sender_type,
         content_indicators |-> typed.content_indicators,
         business_signals |-> urgent \o customs]

\* _assess_urgency: level and escalation_needed
assess_urgency(content, patterns) ==
    LET content_lower == lower(content.text)
        timed == IF any_in({"today", "asap", "urgent", "immediate"}, content_lower)
                 THEN Min({5, 3 + 2}) ELSE 3
        arrival == IF patterns.email_type = "arrival_notification"
                   THEN Min({5, timed + 1}) ELSE timed
        legal == IF patterns.email_type = "legal_documentation"
                 THEN Min({5, arrival + 1}) ELSE arrival
        signalled == in_list("high_urgency", patterns.business_signals)
        level == IF signalled THEN Min({5, legal + 1}) ELSE legal
    IN  [level |-> level,
         escalation_needed |-> signalled /\ level >= 4]

\* _make_routing_decision: queue, confidence and escalation_recommended
make_routing_decision(patterns, urgency_analysis) ==
    LET chosen ==
            IF patterns.email_type = "legal_documentation"
               \/ in_list("legal_documents", patterns.content_indicators)
            THEN [queue |-> "Account_Inquiry_US", confidence |-> 90]
            ELSE IF patterns.sender_type = "external_carrier"
            THEN [queue |-> "ORD_SI-Non_UPS_Shipments", confidence |-> 95]
            ELSE IF in_list("pre_alert_notification", patterns.content_indicators)
            THEN [queue |-> "ORD_Pre-Alert_SI", confidence |-> 90]
            ELSE IF in_list("arrival_notice", patterns.content_indicators)
            THEN [queue |-> "ORD_Ocean_Arrival_Notices", confidence |-> 85]
            ELSE [queue |-> "Shipment_Initiation_Brkg_Inland_SI", confidence |-> 50]
    IN  IF urgency_analysis.level >= 4
        THEN [queue |-> chosen.queue,
              confidence |-> Min({100, chosen.confidence + 10}),
              escalation_recommended |-> TRUE]
        ELSE [queue |-> chosen.queue,
              confidence |-> chosen.confidence,
              escalation_recommended |-> FALSE]

\* _plan_autonomous_actions: the "action" of each planned action, in order
plan_autonomous_actions(routing_queues, routing_decision, urgency_analysis) ==
    LET capabilities == routing_queues[routing_decision.queue].autonomous_actions
    IN  <<"auto_acknowledge">>
        \o (IF in_list("priority_flag", capabilities) /\ urgency_analysis.level >= 4
            THEN <<"priority_flag">> ELSE <<>>)
        \o (IF in_list("carrier_sync", capabilities) THEN <<"carrier_sync">> ELSE <<>>)
        \o (IF in_list("customs_notification", capabilities)
            THEN <<"customs_notification">> ELSE <<>>)
        \o (IF routing_decision.escalation_recommended
            THEN <<"escalation_alert">> ELSE <<>>)

\* intelligent_content_analysis (business_context and reasoning_chain,
\* texts for display, left out)
intelligent_content_analysis(self, content) ==
    LET email_data == parse_email_content(content)
        patterns == detect_patterns(content, email_data)
        urgency_analysis == assess_urgency(content, patterns)
        routing_decision == make_routing_decision(patterns, urgency_analysis)
    IN  [patterns |-> patterns,
         urgency_analysis |-> urgency_analysis,
         routing_decision |-> routing_decision,
         autonomous_actions |->
             plan_autonomous_actions(self.routing_rules, routing_decision,
                                     urgency_analysis),
         confidence |-> routing_decision.confidence]

\* determine_routing: (queue, description, confidence), and the analysis
\* the tuple is taken from
determine_routing(self, content) ==
    LET analysis == intelligent_content_analysis(self, content)
        queue == analysis.routing_decision.queue
    IN  [queue |-> queue,
         description |-> self.routing_rules[queue].description,
         confidence |-> analysis.routing_decision.confidence,
         analysis |-> analysis]

\* the dict analyze_with_claude returns when it has no reply to return
claude_default(reason) ==
    [document_type |-> "unknown",
     key_entities |-> <<>>,
     urgency_level |-> 3,
     recommended_queue |-> "Shipment_Initiation_Brkg_Inland_SI",
     confidence_score |-> 50,
     reasons |-> <<reason>>]

\* what self.client.messages.create and json.loads can do: the call
\* raises, the reply text is not JSON, or it is the JSON of some dict
ClaudeReplies ==
    {[kind |-> "raises"], [kind |-> "not_json"]}
    \cup {[kind |-> "json",
           value |-> [document_type |-> "email", key_entities |-> <<>>,
                      urgency_level |-> 4, recommended_queue |-> q,
                      confidence_score |-> 80, reasons |-> <<"reply">>]] :
              q \in {"Account_Inquiry_US", "ORD_Ocean_Arrival_Notices"}}

\* mutation: the client call and json.loads are not wrapped in try/except
analyze_with_claude_unguarded(self, content, reply) ==
    IF self.client = "none"
    THEN [raised |-> FALSE, client_called |-> FALSE,
          value |-> claude_default("Claude API key not provided")]
    ELSE IF reply.kind = "json"
    THEN [raised |-> FALSE, client_called |-> TRUE, value |-> reply.value]
    ELSE [raised |-> TRUE, client_called |-> TRUE, value |-> EmptyDict]

\* analyze_with_claude, given what the client would reply: whether the
\* method raised, whether it called the client, and the dict it returned
analyze_with_claude(self, content, reply) ==
    IF self.client = "none"
    THEN [raised |-> FALSE, client_called |-> FALSE,
          value |-> claude_default("Claude API key not provided")]
    ELSE IF reply.kind = "json"
    THEN [raised |-> FALSE, client_called |-> TRUE, value |-> reply.value]
    ELSE [raised |-> FALSE, client_called |-> TRUE,
          value |-> claude_default("API error")]

\* the contents the ShipmentRoutingAgent is handed
Compose(from, subject, body) ==
    [text |-> "From: " \o from \o "\nSubject: " \o subject \o "\n\n" \o body,
     from |-> from, subject |-> subject]

ShipmentContents ==
    {Compose(f, sj, b) :
         f \in {"ops@evergreen-line.com", "bob@acme.com"},
         sj \in {"Pre-Alert", "Update"},
         b \in {"", "POA attached", "Arrival Notice", "vessel arrived, urgent",
                "customs today"}}

\* the contents put into the prompt of analyze_with_claude
PromptContents ==
    {Compose("bob@acme.com", "Update", b) : b \in {"POA attached", "customs today"}}

\* ShipmentRoutingAgent.__init__(api_key)
new_shipment_agent(api_key) ==
    [client |-> IF api_key # "" THEN "client" ELSE "none",
     routing_rules |-> load_routing_rules,
     confidence_threshold |-> 80,
     learning_history |-> <<>>]

ApiKeys == {"", "sk-key"}

NoShipmentCall == [kind |-> "none"]

\* no ShipmentRoutingAgent has been created
NoShipmentAgent == [client |-> "none", routing_rules |-> EmptyDict,
                    confidence_threshold |-> 80, learning_history |-> <<>>]

NoShipmentCalls ==
    [calls |-> 0, api_calls |-> 0, last |-> "none",
     claude_call |-> NoShipmentCall, routing_call |-> NoShipmentCall]

(***************************************************************************)
(* State machine.                                                          *)
(***************************************************************************)
NoCall == [kind |-> "none"]

\* the threads that share the agent; each is outside route_email at first
Callers == {"caller_1", "caller_2"}

IdleFrame == [pc |-> "idle", msg |-> NoCall, result |-> EmptyDict, loaded |-> 0,
              calls |-> 0]

NoCallers == [c \in Callers |-> IdleFrame]

NoDecisions == [q \in RoutingQueue |-> 0]

\* no helper method is being called directly
NoHelperCall == [fn |-> "none", arg |-> [kind |-> "none", value |-> ""],
                 keywords |-> <<>>, done |-> FALSE, raised |-> FALSE,
                 found |-> FALSE, domain |-> ""]

\* the working directory holds no temp.msg
NoFile == [exists |-> FALSE, data |-> ""]

\* nobody calls extract_text_from_file
NoExtractions == [c \in Callers |->
                     [pc |-> "idle", upload |-> "", email_text |-> "",
                      failed |-> FALSE, result |-> ""]]

\* EmailRoutingAgent.__init__
Init ==
    /\ routing_rules = initialize_routing_rules
    /\ routing_stats = [total_processed |-> 0,
                        rules_matched |-> [q \in RoutingQueue |-> 0]]
    /\ eml_content = NoCall
    /\ routing_result = EmptyDict
    /\ phase = "idle"
    /\ routing_error = ""
    /\ rules_tried = <<>>
    /\ callers = NoCallers
    /\ decisions_returned = NoDecisions
    /\ shipment_agent = NoShipmentAgent
    /\ shipment_calls = NoShipmentCalls
    /\ helper_call = NoHelperCall
    /\ temp_msg = NoFile
    /\ extractions = NoExtractions

\* one call agent.route_email(msg), from entry to return
RouteEmail(msg) ==
    LET r == route_email(routing_rules, routing_stats, msg)
    IN  /\ eml_content' = msg
        /\ routing_result' = r.result
        /\ routing_stats' = r.stats
        /\ phase' = "returned"
        /\ routing_error' = r.error
        /\ rules_tried' = r.tried
        /\ decisions_returned' =
               IF DOMAIN r.result = {} THEN decisions_returned
               ELSE [decisions_returned EXCEPT ![r.result.routing_queue] = @ + 1]
        /\ UNCHANGED <<routing_rules, callers, shipment_agent, shipment_calls,
                       helper_call, temp_msg, extractions>>

\* the session: uploads are routed one after the other by the same agent
Upload ==
    /\ routing_stats.total_processed < MaxCalls
    /\ \E msg \in Uploads : RouteEmail(msg)

Next == Upload

Spec == Init /\ [][Next]_vars

\* a fresh agent that is handed one message
InitDoc ==
    /\ routing_rules = initialize_routing_rules
    /\ routing_stats = [total_processed |-> 0,
                        rules_matched |-> [q \in RoutingQueue |-> 0]]
    /\ eml_content \in Inputs
    /\ routing_result = EmptyDict
    /\ phase = "called"
    /\ routing_error = ""
    /\ rules_tried = <<>>
    /\ callers = NoCallers
    /\ decisions_returned = NoDecisions
    /\ shipment_agent = NoShipmentAgent
    /\ shipment_calls = NoShipmentCalls
    /\ helper_call = NoHelperCall
    /\ temp_msg = NoFile
    /\ extractions = NoExtractions

Serve ==
    /\ phase = "called"
    /\ RouteEmail(eml_content)

NextDoc == Serve

SpecDoc == InitDoc /\ [][NextDoc]_vars

(***************************************************************************)
(* Construction with a table other than the one of the source.  __init__   *)
(* stores whatever _initialize_routing_rules returns and checks nothing;   *)
(* RuleTables are tables the method returns after an edit of its literal:  *)
(* the table of the source, the same rules under other unique ids, and     *)
(* tables that break the RuleSet invariant.                                *)
(***************************************************************************)
Renumber(rules, ids) ==
    [i \in DOMAIN rules |-> [rules[i] EXCEPT !.rule_id = ids[i]]]

\* unique ids for the five rules, in declared order
IdAssignments ==
    {<<2, 3, 4, 5, 1>>, <<1, 2, 3, 4, 5>>, <<12, 13, 14, 15, 11>>,
     <<4, 3, 2, 1, 5>>, <<2, 7, 4, 8, 1>>}

RenumberedTables == {Renumber(initialize_routing_rules, ids) : ids \in IdAssignments}

BrokenTables ==
    {rules_without_default,
     <<rule_account_inquiry, rule_default, rule_evergreen_domain,
       rule_pre_alert, rule_arrival_notice, rule_default_renumbered>>,
     Renumber(initialize_routing_rules, <<2, 3, 4, 2, 1>>)}

RuleTables == RenumberedTables \cup BrokenTables

NotConstructed == <<>>

InitConfig ==
    /\ routing_rules = NotConstructed
    /\ routing_stats = [total_processed |-> 0,
                        rules_matched |-> [q \in RoutingQueue |-> 0]]
    /\ eml_content = NoCall
    /\ routing_result = EmptyDict
    /\ phase = "new"
    /\ routing_error = ""
    /\ rules_tried = <<>>
    /\ callers = NoCallers
    /\ decisions_returned = NoDecisions
    /\ shipment_agent = NoShipmentAgent
    /\ shipment_calls = NoShipmentCalls
    /\ helper_call = NoHelperCall
    /\ temp_msg = NoFile
    /\ extractions = NoExtractions

\* EmailRoutingAgent.__init__: self.routing_rules = the table, unchecked
Construct ==
    /\ phase = "new"
    /\ \E table \in RuleTables : routing_rules' = table
    /\ phase' = "idle"
    /\ UNCHANGED <<routing_stats, eml_content, routing_result, routing_error,
                   rules_tried, callers, decisions_returned, shipment_agent,
                   shipment_calls,
                   helper_call, temp_msg, extractions>>

\* uploads routed by the agent once it is constructed
UploadConstructed ==
    /\ phase # "new"
    /\ Upload

NextConfig == Construct \/ UploadConstructed

SpecConfig == InitConfig /\ [][NextConfig]_vars

(***************************************************************************)
(* Threads calling route_email on one shared agent.  The method takes no   *)
(* lock.  Up to the construction of routing_result a call reads only       *)
(* self.routing_rules and its own locals; `self.routing_stats[k] += 1` is  *)
(* a load of the item, an addition and a store of the item, and another    *)
(* thread may run between the load and the store.                          *)
(***************************************************************************)
SharedUploads ==
    {Message(("From" :> "vendor@supplier.com") @@ ("Subject" :> sj),
             [ctype |-> "text/plain", payload |-> "", parts |-> <<>>]) :
         sj \in {"Invoice Payment Question", "POA"}}
    \cup {NotText}

RECURSIVE CallsStarted(_)
CallsStarted(S) ==
    IF S = {} THEN 0
    ELSE LET c == CHOOSE x \in S : TRUE
         IN  callers[c].calls + CallsStarted(S \ {c})

\* lines 292-312: parse, loop over the rules, build routing_result; a call
\* that raises goes to the except clause and returns {}
Call(c, msg) ==
    LET r == route_email(routing_rules, routing_stats, msg)
    IN  /\ callers[c].pc \in {"idle", "returned"}
        /\ CallsStarted(Callers) < MaxCalls
        /\ callers' = [callers EXCEPT ![c] =
               [pc |-> IF DOMAIN r.result = {} THEN "returned" ELSE "built",
                msg |-> msg, result |-> r.result, loaded |-> 0,
                calls |-> @.calls + 1]]
        /\ UNCHANGED <<routing_rules, routing_stats, eml_content, routing_result,
                       phase, routing_error, rules_tried, decisions_returned,
                   shipment_agent, shipment_calls,
                       helper_call, temp_msg, extractions>>

\* line 314, load: self.routing_stats["total_processed"]
LoadTotal(c) ==
    /\ callers[c].pc = "built"
    /\ callers' = [callers EXCEPT ![c].pc = "total_loaded",
                                  ![c].loaded = routing_stats.total_processed]
    /\ UNCHANGED <<routing_rules, routing_stats, eml_content, routing_result,
                   phase, routing_error, rules_tried, decisions_returned,
                   shipment_agent, shipment_calls,
                   helper_call, temp_msg, extractions>>

\* line 314, store: self.routing_stats["total_processed"] = loaded + 1
StoreTotal(c) ==
    /\ callers[c].pc = "total_loaded"
    /\ routing_stats' = [routing_stats EXCEPT !.total_processed = callers[c].loaded + 1]
    /\ callers' = [callers EXCEPT ![c].pc = "total_stored"]
    /\ UNCHANGED <<routing_rules, eml_content, routing_result, phase,
                   routing_error, rules_tried, decisions_returned,
                   shipment_agent, shipment_calls,
                   helper_call, temp_msg, extractions>>

\* line 315, load: self.routing_stats["rules_matched"][queue]
LoadQueueCount(c) ==
    /\ callers[c].pc = "total_stored"
    /\ callers' = [callers EXCEPT ![c].pc = "queue_loaded",
                                  ![c].loaded =
                       routing_stats.rules_matched[callers[c].result.routing_queue]]
    /\ UNCHANGED <<routing_rules, routing_stats, eml_content, routing_result,
                   phase, routing_error, rules_tried, decisions_returned,
                   shipment_agent, shipment_calls,
                   helper_call, temp_msg, extractions>>

\* line 315, store, and line 317: return routing_result
StoreQueueCount(c) ==
    LET queue == callers[c].result.routing_queue
    IN  /\ callers[c].pc = "queue_loaded"
        /\ routing_stats' = [routing_stats EXCEPT
                                 !.rules_matched[queue] = callers[c].loaded + 1]
        /\ callers' = [callers EXCEPT ![c].pc = "returned"]
        /\ decisions_returned' = [decisions_returned EXCEPT ![queue] = @ + 1]
        /\ UNCHANGED <<routing_rules, eml_content, routing_result, phase,
                       routing_error, rules_tried, shipment_agent,
                       shipment_calls,
                       helper_call, temp_msg, extractions>>

NextConc ==
    \E c \in Callers :
        \/ \E msg \in SharedUploads : Call(c, msg)
        \/ LoadTotal(c)
        \/ StoreTotal(c)
        \/ LoadQueueCount(c)
        \/ StoreQueueCount(c)

SpecConc == Init /\ [][NextConc]_vars

(***************************************************************************)
(* The ShipmentRoutingAgent: an agent created with or without an API key   *)
(* serves calls of determine_routing and of analyze_with_claude, in any    *)
(* order.                                                                  *)
(***************************************************************************)
InitShipment ==
    /\ routing_rules = initialize_routing_rules
    /\ routing_stats = [total_processed |-> 0,
                        rules_matched |-> [q \in RoutingQueue |-> 0]]
    /\ eml_content = NoCall
    /\ routing_result = EmptyDict
    /\ phase = "idle"
    /\ routing_error = ""
    /\ rules_tried = <<>>
    /\ callers = NoCallers
    /\ decisions_returned = NoDecisions
    /\ shipment_agent \in {new_shipment_agent(api_key) : api_key \in ApiKeys}
    /\ shipment_calls = NoShipmentCalls
    /\ helper_call = NoHelperCall
    /\ temp_msg = NoFile
    /\ extractions = NoExtractions

\* one call agent.determine_routing(content)
DetermineRouting(content) ==
    /\ shipment_calls.calls < MaxCalls
    /\ shipment_calls' =
           [shipment_calls EXCEPT
                !.calls = @ + 1,
                !.last = "determine_routing",
                !.routing_call =
                    [kind |-> "determine_routing", content |-> content,
                     result |-> determine_routing(shipment_agent, content)]]
    /\ UNCHANGED <<routing_rules, routing_stats, eml_content, routing_result,
                   phase, routing_error, rules_tried, callers,
                   decisions_returned, shipment_agent,
                   helper_call, temp_msg, extractions>>

\* one call agent.analyze_with_claude(content); reply is what the client
\* does if the method calls it
AnalyzeWithClaude(content, reply) ==
    LET r == analyze_with_claude(shipment_agent, content, reply)
    IN  /\ shipment_calls.calls < MaxCalls
        /\ shipment_calls' =
               [shipment_calls EXCEPT
                    !.calls = @ + 1,
                    !.last = "analyze_with_claude",
                    !.api_calls = IF r.client_called THEN @ + 1 ELSE @,
                    !.claude_call =
                        [kind |-> "analyze_with_claude", content |-> content,
                         reply |-> reply, result |-> r]]
        /\ UNCHANGED <<routing_rules, routing_stats, eml_content, routing_result,
                       phase, routing_error, rules_tried, callers,
                       decisions_returned, shipment_agent,
                       helper_call, temp_msg, extractions>>

NextShipment ==
    \/ \E content \in ShipmentContents : DetermineRouting(content)
    \/ \E content \in PromptContents, reply \in ClaudeReplies :
           AnalyzeWithClaude(content, reply)

SpecShipment == InitShipment /\ [][NextShipment]_vars

(***************************************************************************)
(* Direct calls of the helper methods.  A Python argument is a string or   *)
(* None; check_text_contains answers None with `if not text`, and in       *)
(* extract_from_domain re.search raises TypeError on None, which the       *)
(* `except Exception` of the method turns into "".                         *)
(***************************************************************************)
PyNone == [kind |-> "none", value |-> ""]

PyStr(s) == [kind |-> "str", value |-> s]

check_text_contains_call(text, keywords) ==
    IF text.kind = "none" THEN FALSE
    ELSE check_text_contains(text.value, keywords)

\* mutation: the method has no try/except around the two searches
extract_from_domain_uncaught(from_address) ==
    IF from_address.kind = "str"
    THEN [raised |-> FALSE, value |-> extract_from_domain(from_address.value)]
    ELSE [raised |-> TRUE, value |-> ""]

extract_from_domain_call(from_address) ==
    IF from_address.kind = "str"
    THEN [raised |-> FALSE, value |-> extract_from_domain(from_address.value)]
    ELSE [raised |-> FALSE, value |-> ""]

\* the texts and keyword lists check_text_contains is called with
HelperTexts ==
    {PyNone} \cup
    {PyStr(t) : t \in {"", " ", "POA", "RE: poa request", "Power Of Attorney",
                       "PREALERT", "Shipment Pre-Alert", "Arrival  Notice",
                       "FW: Arrival Notice", "Invoice"}}

KeywordLists ==
    {<<>>, <<"">>, <<"poa">>, <<"POA">>, <<"Arrival Notice", "invoice">>,
     rule_account_inquiry.conditions.subject_contains,
     rule_pre_alert.conditions.subject_contains,
     rule_arrival_notice.conditions.subject_or_body_contains}

\* the sender values extract_from_domain is called with
HelperSenders ==
    {PyNone} \cup
    {PyStr(s) : s \in Froms \cup
                      {" ", "@", "@@", "user@", "user@ ", "a@@b.com", "<", "<>",
                       "< >", "<@>", "<user@>", "<a@b.com", "a@b.com>",
                       "<<a@b.com>>", "Ops <no-at-sign>", "<> <a@b.com>",
                       "Ops <ops@mail.evergreen-line.com",
                       "a@b.com <ops@mail.evergreen-line.com>",
                       "ops@mail.evergreen-line.com <Ops>",
                       "ops@mail.evergreen-line.com <>"}}

HelperSubjects == {"hello", "RE: POA"}

HelperCalls ==
    {[NoHelperCall EXCEPT !.fn = "check_text_contains", !.arg = t,
                          !.keywords = k] : t \in HelperTexts, k \in KeywordLists}
    \cup {[NoHelperCall EXCEPT !.fn = "extract_from_domain", !.arg = s] :
              s \in HelperSenders}

\* the message whose sender (or subject) is the argument of a helper call
HelperDocument(call, subject) ==
    LET fh == IF call.fn = "extract_from_domain" /\ call.arg.kind = "str"
              THEN ("From" :> call.arg.value) ELSE EmptyDict
        sh == IF call.fn = "check_text_contains" /\ call.arg.kind = "str"
              THEN ("Subject" :> call.arg.value) ELSE ("Subject" :> subject)
    IN  Message(fh @@ sh, [ctype |-> "text/plain", payload |-> "", parts |-> <<>>])

\* a fresh agent, a helper call about to run and the message to route
InitHelper ==
    /\ routing_rules = initialize_routing_rules
    /\ routing_stats = [total_processed |-> 0,
                        rules_matched |-> [q \in RoutingQueue |-> 0]]
    /\ helper_call \in HelperCalls
    /\ \E subject \in HelperSubjects :
           eml_content = HelperDocument(helper_call, subject)
    /\ routing_result = EmptyDict
    /\ phase = "called"
    /\ routing_error = ""
    /\ rules_tried = <<>>
    /\ callers = NoCallers
    /\ decisions_returned = NoDecisions
    /\ shipment_agent = NoShipmentAgent
    /\ shipment_calls = NoShipmentCalls
    /\ temp_msg = NoFile
    /\ extractions = NoExtractions

\* agent.check_text_contains(text, keywords)
CheckTextContains ==
    /\ helper_call.fn = "check_text_contains"
    /\ ~helper_call.done
    /\ helper_call' =
           [helper_call EXCEPT
                !.done = TRUE,
                !.found = check_text_contains_call(helper_call.arg,
                                                   helper_call.keywords)]
    /\ UNCHANGED <<routing_rules, routing_stats, eml_content, routing_result,
                   phase, routing_error, rules_tried, callers,
                   decisions_returned, shipment_agent, shipment_calls,
                   temp_msg, extractions>>

\* agent.extract_from_domain(from_address)
ExtractFromDomain ==
    /\ helper_call.fn = "extract_from_domain"
    /\ ~helper_call.done
    /\ LET r == extract_from_domain_call(helper_call.arg)
       IN  helper_call' = [helper_call EXCEPT !.done = TRUE,
                                              !.raised = r.raised,
                                              !.domain = r.value]
    /\ UNCHANGED <<routing_rules, routing_stats, eml_content, routing_result,
                   phase, routing_error, rules_tried, callers,
                   decisions_returned, shipment_agent, shipment_calls,
                   temp_msg, extractions>>

NextHelper == CheckTextContains \/ ExtractFromDomain \/ Serve

SpecHelper == InitHelper /\ [][NextHelper]_vars

(***************************************************************************)
(* ShipmentRoutingAgent.extract_text_from_file on .msg uploads.  Every     *)
(* call writes the upload to the file "temp.msg" of the working directory, *)
(* has extract_msg read that file, removes it and returns the text; an     *)
(* exception anywhere on the way is caught and "" is returned.  The        *)
(* sessions of the application run as threads of one process, so their     *)
(* calls share the file.  MSG_SUPPORT is taken to be True.                 *)
(***************************************************************************)
\* the uploads: the bytes of two Outlook messages and of a file that is none
MsgUploads == {"alpha.msg", "beta.msg", "broken.msg"}

\* what extract_msg.Message reads out of the bytes of a message
MsgFields ==
    ("alpha.msg" :> [sender |-> "ops@mail.evergreen-line.com",
                     to |-> "ordchbdocdesk@ups.com",
                     subject |-> "Shipment Pre-Alert",
                     date |-> "2024-01-05", body |-> "ETA Monday"])
    @@ ("beta.msg" :> [sender |-> "client@retailcorp.com",
                       to |-> "ordchbdocdesk@ups.com",
                       subject |-> "POA attached",
                       date |-> "2024-01-06", body |-> ""])

\* extract_msg.Message(path) raises on bytes that are no Outlook message
IsOutlookMessage(data) == data \in DOMAIN MsgFields

\* the email_text the method builds from a parsed message
msg_email_text(data) ==
    LET msg == MsgFields[data]
    IN  "From: " \o msg.sender \o "\n"
        \o "To: " \o msg.to \o "\n"
        \o "Subject: " \o msg.subject \o "\n"
        \o "Date: " \o msg.date \o "\n\n"
        \o msg.body

InitMsg ==
    /\ routing_rules = initialize_routing_rules
    /\ routing_stats = [total_processed |-> 0,
                        rules_matched |-> [q \in RoutingQueue |-> 0]]
    /\ eml_content = NoCall
    /\ routing_result = EmptyDict
    /\ phase = "idle"
    /\ routing_error = ""
    /\ rules_tried = <<>>
    /\ callers = NoCallers
    /\ decisions_returned = NoDecisions
    /\ shipment_agent \in {new_shipment_agent(api_key) : api_key \in ApiKeys}
    /\ shipment_calls = NoShipmentCalls
    /\ helper_call = NoHelperCall
    /\ temp_msg = NoFile
    /\ extractions = NoExtractions

\* what a step of extract_text_from_file leaves alone
MsgStepUnchanged ==
    UNCHANGED <<routing_rules, routing_stats, eml_content, routing_result,
                phase, routing_error, rules_tried, callers,
                decisions_returned, shipment_agent, shipment_calls,
                helper_call>>

\* caller c enters extract_text_from_file(file, "msg") with an upload of its own
EnterExtract(c, file) ==
    /\ extractions[c].pc = "idle"
    /\ \A d \in Callers \ {c} : extractions[d].upload # file
    /\ extractions' = [extractions EXCEPT ![c].pc = "entered",
                                          ![c].upload = file]
    /\ UNCHANGED temp_msg
    /\ MsgStepUnchanged

\* with open("temp.msg", "wb") as f: f.write(file.read())
WriteTemp(c) ==
    /\ extractions[c].pc = "entered"
    /\ temp_msg' = [exists |-> TRUE, data |-> extractions[c].upload]
    /\ extractions' = [extractions EXCEPT ![c].pc = "written"]
    /\ MsgStepUnchanged

\* msg = extract_msg.Message("temp.msg") and the reads of its fields; a
\* missing file or bytes that are no message raise, and the except clause
\* returns "" without removing the file
ReadTemp(c) ==
    /\ extractions[c].pc = "written"
    /\ IF temp_msg.exists /\ IsOutlookMessage(temp_msg.data)
       THEN extractions' =
                [extractions EXCEPT ![c].pc = "read",
                                    ![c].email_text = msg_email_text(temp_msg.data)]
       ELSE extractions' =
                [extractions EXCEPT ![c].pc = "returned",
                                    ![c].failed = TRUE,
                                    ![c].result = ""]
    /\ UNCHANGED temp_msg
    /\ MsgStepUnchanged

\* os.remove("temp.msg"); return email_text.  os.remove raises
\* FileNotFoundError when the file is gone, and the except clause returns ""
RemoveTemp(c) ==
    /\ extractions[c].pc = "read"
    /\ IF temp_msg.exists
       THEN /\ temp_msg' = NoFile
            /\ extractions' =
                   [extractions EXCEPT ![c].pc = "returned",
                                       ![c].result = extractions[c].email_text]
       ELSE /\ UNCHANGED temp_msg
            /\ extractions' =
                   [extractions EXCEPT ![c].pc = "returned",
                                       ![c].failed = TRUE,
                                       ![c].result = ""]
    /\ MsgStepUnchanged

NextMsg ==
    \/ \E c \in Callers, file \in MsgUploads : EnterExtract(c, file)
    \/ \E c \in Callers : WriteTemp(c)
    \/ \E c \in Callers : ReadTemp(c)
    \/ \E c \in Callers : RemoveTemp(c)

SpecMsg == InitMsg /\ [][NextMsg]_vars

(***************************************************************************)
(* Vocabulary of the properties.                                           *)
(***************************************************************************)
\* the latest call returned a routing decision
Decided == phase = "returned" /\ DOMAIN routing_result # {}

\* the latest call was handed a document (text with headers and content)
DocumentRouted == phase = "returned" /\ eml_content.kind = "text"

AccountKeywords == {"power of attorney", "poa", "account needed", "account setup"}
PreAlertKeywords == {"pre-alert", "pre alert", "prealert"}
ArrivalKeywords == {"arrival notice"}
ConfiguredDomain == "@mail.evergreen-line.com"

\* some keyword of kws occurs in text, letter case ignored
HasAny(text, kws) == \E k \in kws : Contains(lower(text), k)

AccountInSubject(ed) == HasAny(ed.subject, AccountKeywords)

AccountInAttachments(ed) ==
    \E n \in 1..Len(ed.attachments) : HasAny(ed.attachments[n], AccountKeywords)

PreAlertInSubject(ed) == HasAny(ed.subject, PreAlertKeywords)

ArrivalInSubjectOrBody(ed) ==
    HasAny(ed.subject, ArrivalKeywords) \/ HasAny(ed.body, ArrivalKeywords)

\* position in routing_rules of the rule with the given id
RuleIndex(id) ==
    CHOOSE n \in 1..Len(routing_rules) : routing_rules[n].rule_id = id

(***************************************************************************)
(* C1  Totality: every document, whatever its sender, subject, body and    *)
(* attachment names (empty and missing ones included), gets exactly one    *)
(* routing decision, whose queue is one of the five queues; route_email    *)
(* never returns the empty result for a document.                          *)
(***************************************************************************)
C1_Totality ==
    DocumentRouted =>
        /\ DOMAIN routing_result # {}
        /\ routing_result.routing_queue \in RoutingQueue
        /\ routing_result.email_data = parse_eml_file(eml_content)

\* a document without From and Subject headers and with an empty body is routed
C1_Witness ==
    /\ DocumentRouted
    /\ eml_content.headers = EmptyDict
    /\ eml_content.payload = ""
    /\ eml_content.parts = <<>>
    /\ DOMAIN routing_result # {}
    /\ routing_result.routing_queue = SHIPMENT_INITIATION_BRKG_INLAND_SI

(***************************************************************************)
(* C2  Priority correctness: the rule reported by route_email is the       *)
(* earliest rule of routing_rules, in declared order, whose predicate      *)
(* holds; a document with an account-inquiry keyword (rule id 2) and a     *)
(* pre-alert keyword (rule id 4) goes to Account_Inquiry_US.               *)
(***************************************************************************)
C2_PriorityCorrectness ==
    Decided =>
        LET ed == routing_result.email_data
            n  == RuleIndex(routing_result.rule_matched)
        IN  /\ routing_result.routing_queue = routing_rules[n].queue
            /\ apply_routing_rule(ed, routing_rules[n]).matched
            /\ \A m \in 1..(n - 1) :
                   ~apply_routing_rule(ed, routing_rules[m]).matched
            /\ (AccountInSubject(ed) /\ PreAlertInSubject(ed))
                   => routing_result.routing_queue = ACCOUNT_INQUIRY_US

\* a subject with both an account keyword and a pre-alert keyword was routed
C2_Witness ==
    /\ Decided
    /\ routing_result.email_data.subject = "POA Pre-Alert"
    /\ routing_result.routing_queue = ACCOUNT_INQUIRY_US
    /\ routing_result.rule_matched = 2

(***************************************************************************)
(* C3  The domain rule beats the later keyword rules: a document whose     *)
(* sender domain is @mail.evergreen-line.com and whose subject and         *)
(* attachment names hold no account-inquiry keyword goes to                *)
(* ORD_SI-Non_UPS_Shipments, also when its subject holds a pre-alert       *)
(* keyword or its subject or body holds "arrival notice".                  *)
(***************************************************************************)
C3_DomainBeatsKeywords ==
    Decided =>
        LET ed == routing_result.email_data
        IN  (/\ extract_from_domain(ed.from) = ConfiguredDomain
             /\ ~AccountInSubject(ed)
             /\ ~AccountInAttachments(ed))
            => /\ routing_result.routing_queue = ORD_SI_NON_UPS_SHIPMENTS
               /\ routing_result.rule_matched = 3

\* the end-to-end scenario: Evergreen sender, pre-alert subject, arrival-notice body
C3_Witness ==
    /\ Decided
    /\ routing_result.email_data.from = "Ops <ops@mail.evergreen-line.com>"
    /\ routing_result.email_data.subject =
           "Shipment Pre-Alert - Container EVGU123456789"
    /\ HasAny(routing_result.email_data.body, ArrivalKeywords)
    /\ routing_result.routing_queue = ORD_SI_NON_UPS_SHIPMENTS

(***************************************************************************)
(* C4  Case insensitivity: documents that differ only in the letter case   *)
(* of subject, body or attachment names get the same queue, matched rule   *)
(* id and confidence.                                                      *)
(***************************************************************************)
UpperTable ==
    [c \in {LowerTable[u] : u \in DOMAIN LowerTable} |->
         CHOOSE u \in DOMAIN LowerTable : LowerTable[u] = c]

UpperChar(c) == IF c \in DOMAIN UpperTable THEN UpperTable[c] ELSE c

RECURSIVE upper(_)
upper(s) ==
    IF Len(s) = 0 THEN ""
    ELSE UpperChar(CharAt(s, 1)) \o upper(SubSeq(s, 2, Len(s)))

\* the letter case of every second letter position is flipped
RECURSIVE alternate(_, _)
alternate(s, up) ==
    IF Len(s) = 0 THEN ""
    ELSE (IF up THEN UpperChar(CharAt(s, 1)) ELSE LowerChar(CharAt(s, 1)))
         \o alternate(SubSeq(s, 2, Len(s)), ~up)

\* msg with the letter case of subject, body and attachment names changed by f
Recase(msg, f(_)) ==
    [msg EXCEPT
       !.headers = [h \in DOMAIN msg.headers |->
                        IF h = "Subject" THEN f(msg.headers[h]) ELSE msg.headers[h]],
       !.payload = f(msg.payload),
       !.parts = [n \in 1..Len(msg.parts) |->
                      [msg.parts[n] EXCEPT !.payload = f(@), !.filename = f(@)]]]

Alternating(s) == alternate(s, TRUE)

SameDecision(r1, r2) ==
    /\ (DOMAIN r1 = {}) = (DOMAIN r2 = {})
    /\ DOMAIN r1 # {} =>
           /\ r1.routing_queue = r2.routing_queue
           /\ r1.rule_matched = r2.rule_matched
           /\ r1.confidence = r2.confidence

C4_CaseInsensitivity ==
    DocumentRouted =>
        \A v \in {Recase(eml_content, upper), Recase(eml_content, lower),
                  Recase(eml_content, Alternating)} :
            SameDecision(routing_result,
                         route_email(routing_rules, routing_stats, v).result)

\* "POWER OF ATTORNEY needed" was routed; its lower-case twin differs from it
C4_Witness ==
    /\ Decided
    /\ routing_result.email_data.subject = "POWER OF ATTORNEY needed"
    /\ lower(routing_result.email_data.subject) = "power of attorney needed"
    /\ routing_result.routing_queue = ACCOUNT_INQUIRY_US

(***************************************************************************)
(* C5  Domain exactness: the domain rule matches a sender given as         *)
(* "Display Name <user@mail.evergreen-line.com>" or as the bare address,   *)
(* and never matches a sender whose domain (the part of the address after  *)
(* its last "@") is anything else than mail.evergreen-line.com.            *)
(***************************************************************************)
\* the address of a From value: the text between angle brackets, else the
\* trimmed value
AddressOf(sender) ==
    IF AngleStarts(sender) # {}
    THEN SubSeq(sender, Min(AngleStarts(sender)) + 1,
                NextPos(sender, ">", Min(AngleStarts(sender))) - 1)
    ELSE strip(sender)

\* the domain of an address: what follows its last "@" ("" without any "@")
DomainOf(addr) ==
    LET S == {i \in 1..Len(addr) : CharAt(addr, i) = "@"}
    IN  IF S = {} THEN ""
        ELSE SubSeq(addr, (CHOOSE i \in S : \A j \in S : j <= i) + 1, Len(addr))

DomainRuleMatches(ed) == apply_routing_rule(ed, rule_evergreen_domain).matched

C5_DomainExactness ==
    Decided =>
        LET ed == routing_result.email_data
        IN  /\ ed.from \in {"Ops <ops@mail.evergreen-line.com>",
                            "ops@mail.evergreen-line.com"}
                   => DomainRuleMatches(ed)
            /\ DomainRuleMatches(ed)
                   => DomainOf(AddressOf(ed.from)) = "mail.evergreen-line.com"

(***************************************************************************)
(* C6  The domain comparison ignores letter case: the domain rule matches  *)
(* exactly when the extracted @domain of the sender equals                 *)
(* @mail.evergreen-line.com up to letter case.                             *)
(***************************************************************************)
C6_DomainCaseInsensitive ==
    Decided =>
        LET ed == routing_result.email_data
        IN  DomainRuleMatches(ed)
                <=> lower(extract_from_domain(ed.from)) = lower(ConfiguredDomain)

(***************************************************************************)
(* C7  Default fallback: a document with no account keyword in subject or  *)
(* attachment names, a sender domain other than the configured one, no     *)
(* pre-alert keyword in the subject and no "arrival notice" in subject or  *)
(* body goes to Shipment_Initiation_Brkg_Inland_SI with matched rule id 1  *)
(* and confidence DEFAULT.                                                 *)
(***************************************************************************)
C7_DefaultFallback ==
    DocumentRouted =>
        LET ed == parse_eml_file(eml_content)
        IN  (/\ ~AccountInSubject(ed)
             /\ ~AccountInAttachments(ed)
             /\ extract_from_domain(ed.from) # ConfiguredDomain
             /\ ~PreAlertInSubject(ed)
             /\ ~ArrivalInSubjectOrBody(ed))
            => /\ DOMAIN routing_result # {}
               /\ routing_result.routing_queue = SHIPMENT_INITIATION_BRKG_INLAND_SI
               /\ routing_result.rule_matched = 1
               /\ routing_result.confidence = "DEFAULT"

\* the invoice question of vendor@supplier.com was routed by the default rule
C7_Witness ==
    /\ Decided
    /\ routing_result.email_data.subject = "Invoice Payment Question"
    /\ routing_result.email_data.body = "Question about recent invoice."
    /\ routing_result.email_data.from = "ops@supplier.com"
    /\ routing_result.rule_matched = 1

(***************************************************************************)
(* C8  Attachment-triggered match: check_attachment_naming is true iff     *)
(* some file name holds some keyword, letter case ignored (so false for    *)
(* no attachments), and a document without account keyword in the subject  *)
(* but with one in an attachment name goes to Account_Inquiry_US.          *)
(***************************************************************************)
C8_AttachmentMatch ==
    Decided =>
        LET ed == routing_result.email_data
            kw == rule_account_inquiry.conditions.subject_contains
        IN  /\ check_attachment_naming(ed.attachments, kw) <=> AccountInAttachments(ed)
            /\ ~check_attachment_naming(<<>>, kw)
            /\ (~AccountInSubject(ed) /\ AccountInAttachments(ed))
                   => /\ routing_result.routing_queue = ACCOUNT_INQUIRY_US
                      /\ routing_result.rule_matched = 2

\* no subject, no body, and the keyword only in the second attachment name
C8_Witness ==
    /\ Decided
    /\ routing_result.email_data.subject = ""
    /\ routing_result.email_data.body = ""
    /\ routing_result.email_data.attachments = <<"invoice.pdf", "POA_signed.pdf">>
    /\ routing_result.routing_queue = ACCOUNT_INQUIRY_US

(***************************************************************************)
(* C9  Binary confidence: every decision of an agent carries the label     *)
(* HIGH or DEFAULT, never a number; it is DEFAULT exactly when the matched *)
(* rule is the default rule.                                               *)
(***************************************************************************)
C9_BinaryConfidence ==
    Decided =>
        /\ routing_result.confidence \in {"HIGH", "DEFAULT"}
        /\ routing_result.confidence = "DEFAULT"
               <=> "default" \in DOMAIN
                       routing_rules[RuleIndex(routing_result.rule_matched)].conditions

\* one agent has issued a DEFAULT decision and then a HIGH one
C9_Witness ==
    /\ Decided
    /\ routing_result.confidence = "HIGH"
    /\ routing_stats.rules_matched[SHIPMENT_INITIATION_BRKG_INLAND_SI] >= 1
    /\ routing_stats.total_processed >= 2

(***************************************************************************)
(* C10  Every decision has a non-empty confidence and a non-empty          *)
(* match_reason, the default rule's and the attachment-name path's too.    *)
(***************************************************************************)
C10_ReasonPopulated ==
    Decided =>
        /\ routing_result.confidence # ""
        /\ routing_result.match_reason # ""

\* a decision of the default rule and its reason
C10_WitnessDefault ==
    /\ Decided
    /\ routing_result.rule_matched = 1
    /\ routing_result.match_reason =
           "No specific rules matched, applying default routing"

\* a decision made on the attachment-name path and its reason
C10_Witness ==
    /\ Decided
    /\ ~AccountInSubject(routing_result.email_data)
    /\ routing_result.match_reason =
           "Attachment names contain account-related keywords"

(***************************************************************************)
(* C13: a call of route_email that ends without a decision (it returns the *)
(* empty result) leaves total_processed and every per-queue count as they  *)
(* were before the call; the statistics change only in calls that return a *)
(* decision.                                                               *)
(***************************************************************************)
C13_FailedAttemptKeepsStats ==
    [][(phase' = "returned" /\ DOMAIN routing_result' = {})
           => routing_stats' = routing_stats]_vars

\* a call has failed on an agent that had already counted decisions
C13_Witness ==
    /\ phase = "returned"
    /\ DOMAIN routing_result = {}
    /\ routing_error # ""
    /\ routing_stats.total_processed >= 1
    /\ \E q \in RoutingQueue : routing_stats.rules_matched[q] >= 1

(***************************************************************************)
(* The RuleSet invariant of the rule table.                                *)
(***************************************************************************)
\* the rule whose conditions are {"default": True}
IsDefaultRule(rule) == cond_get(rule.conditions, "default") = TRUE

DefaultPositions(rules) == {i \in DOMAIN rules : IsDefaultRule(rules[i])}

UniqueRuleIds(rules) ==
    \A i, j \in DOMAIN rules : i # j => rules[i].rule_id # rules[j].rule_id

RuleSetInvariant(rules) ==
    /\ Cardinality(DefaultPositions(rules)) = 1
    /\ Len(rules) \in DefaultPositions(rules)
    /\ UniqueRuleIds(rules)

(***************************************************************************)
(* C18: in every reachable state of the agent routing_rules holds exactly  *)
(* one default rule, that rule is the last of the sequence, all rule ids   *)
(* differ, and no call of route_email changes routing_rules.               *)
(***************************************************************************)
C18_RuleSetInvariant ==
    /\ [](Len(routing_rules) >= 1 /\ RuleSetInvariant(routing_rules))
    /\ [][routing_rules' = routing_rules]_vars

\* the agent has routed messages and failed on one, with its table intact
C18_Witness ==
    /\ phase = "returned"
    /\ routing_stats.total_processed >= 2
    /\ DOMAIN routing_result = {}
    /\ routing_rules = initialize_routing_rules
    /\ RuleSetInvariant(routing_rules)

(***************************************************************************)
(* C19: in one routing pass the rules are tried in the declared order,     *)
(* each at most once, and the pass ends at the first rule whose predicate  *)
(* returns true: the rules evaluated are exactly the positions 1..k, none  *)
(* of the rules before position k matched, rule k matched and is the rule  *)
(* the decision reports; no rule after it was evaluated.                   *)
(***************************************************************************)
C19_EvaluationOrder ==
    Decided =>
        LET ed == routing_result.email_data
            k == Len(rules_tried)
        IN  /\ k >= 1
            /\ \A i \in 1..k : rules_tried[i] = i
            /\ \A i \in 1..(k - 1) : ~apply_routing_rule(ed, routing_rules[i]).matched
            /\ apply_routing_rule(ed, routing_rules[k]).matched
            /\ routing_rules[k].rule_id = routing_result.rule_matched
            /\ routing_rules[k].queue = routing_result.routing_queue

\* a pass that stopped in the middle of the table: rules 1 and 2 were tried
\* and failed, rule 3 matched, rules 4 and 5 would have matched but were
\* not evaluated
C19_Witness ==
    /\ Decided
    /\ rules_tried = <<1, 2, 3>>
    /\ apply_routing_rule(routing_result.email_data, routing_rules[4]).matched
    /\ apply_routing_rule(routing_result.email_data, routing_rules[5]).matched

(***************************************************************************)
(* C20: with the canonical rule table, a message that parse_eml_file       *)
(* turned into e-mail fields always ends the loop of route_email in a      *)
(* match; the failure "No routing rule matched" is never raised.           *)
(***************************************************************************)
C20_ExhaustedUnreachable ==
    /\ routing_error # "No routing rule matched"
    /\ (phase = "returned" /\ DOMAIN parse_eml_file(eml_content) # {})
           => /\ Decided
              /\ routing_error = ""
              /\ rules_tried # <<>>
              /\ apply_routing_rule(parse_eml_file(eml_content),
                                    routing_rules[rules_tried[Len(rules_tried)]]).matched

\* a parsed message that only the last rule of the table accepts
C20_Witness ==
    /\ phase = "returned"
    /\ DOMAIN parse_eml_file(eml_content) # {}
    /\ rules_tried = <<1, 2, 3, 4, 5>>
    /\ routing_error = ""

(***************************************************************************)
(* C11: an engine whose rule table has no default rule, several default    *)
(* rules or duplicate rule ids fails at construction: it never becomes     *)
(* ready, never returns a decision for a document, and the violation is    *)
(* not left for route_email to meet as "No routing rule matched".          *)
(***************************************************************************)
C11_FailFastConfiguration ==
    ~RuleSetInvariant(routing_rules) =>
        /\ phase = "new"
        /\ ~Decided
        /\ routing_error # "No routing rule matched"

(***************************************************************************)
(* C16: rule ids serve logging and explanation only.  Under any other      *)
(* assignment of unique ids to the rules of the table, with the declared   *)
(* order, the conditions and the queues kept, route_email chooses for      *)
(* every document the queue and the confidence it chooses under the ids    *)
(* of the source.                                                          *)
(***************************************************************************)
C16_IdsForLoggingOnly ==
    (phase = "returned" /\ eml_content.kind = "text"
         /\ routing_rules \in RenumberedTables /\ UniqueRuleIds(routing_rules))
    => LET canonical == route_email(initialize_routing_rules, routing_stats,
                                    eml_content).result
       IN  /\ Decided
           /\ routing_result.routing_queue = canonical.routing_queue
           /\ routing_result.confidence = canonical.confidence

(***************************************************************************)
(* C12: a decision depends on the document only.  Whatever was routed      *)
(* before and however the calls of several threads on the shared agent     *)
(* interleave, the queue, the matched rule id, the confidence and the      *)
(* match reason a call returns for a document are those a fresh agent      *)
(* returns for it when it routes it alone (and a call fails exactly when   *)
(* the fresh agent fails).                                                 *)
(***************************************************************************)
FreshStats == [total_processed |-> 0, rules_matched |-> [q \in RoutingQueue |-> 0]]

RoutedAlone(msg) == route_email(initialize_routing_rules, FreshStats, msg).result

DecisionOf(r) ==
    IF DOMAIN r = {} THEN <<>>
    ELSE <<r.routing_queue, r.rule_matched, r.confidence, r.match_reason>>

C12_DecisionDependsOnDocumentOnly ==
    \A c \in Callers :
        callers[c].pc # "idle" =>
            DecisionOf(callers[c].result) = DecisionOf(RoutedAlone(callers[c].msg))

\* a thread holds a decision it computed while the other thread was between
\* the load and the store of a counter, on an agent that had routed before
C12_Witness ==
    \E c, d \in Callers :
        /\ c # d
        /\ callers[c].pc = "built"
        /\ callers[c].calls >= 2
        /\ DOMAIN callers[c].result # {}
        /\ callers[d].pc \in {"total_loaded", "queue_loaded"}
        /\ routing_stats.rules_matched[callers[c].result.routing_queue] >= 1

(***************************************************************************)
(* C14: no update of the statistics is lost when several threads call      *)
(* route_email on the same agent: once every call has finished,            *)
(* total_processed is the number of calls that returned a decision and     *)
(* each per-queue count is the number of decisions for that queue.         *)
(***************************************************************************)
RECURSIVE SumOver(_, _)
SumOver(f, S) ==
    IF S = {} THEN 0
    ELSE LET x == CHOOSE y \in S : TRUE
         IN  f[x] + SumOver(f, S \ {x})

AllCallsFinished == \A c \in Callers : callers[c].pc \in {"idle", "returned"}

C14_NoLostUpdates ==
    AllCallsFinished =>
        /\ routing_stats.total_processed = SumOver(decisions_returned, RoutingQueue)
        /\ \A q \in RoutingQueue :
               routing_stats.rules_matched[q] = decisions_returned[q]

\* the latest analyze_with_claude had no client, or its client failed
ClaudeCallFailed ==
    /\ shipment_calls.claude_call.kind = "analyze_with_claude"
    /\ \/ shipment_agent.client = "none"
       \/ shipment_calls.claude_call.reply.kind \in {"raises", "not_json"}

\* the latest calls: a failed analyze_with_claude returned the default
\* recommendation, and determine_routing returned what an agent without
\* client returns
FailureContained ==
    /\ shipment_calls.claude_call.kind = "analyze_with_claude"
           => ~shipment_calls.claude_call.result.raised
    /\ ClaudeCallFailed =>
           LET r == shipment_calls.claude_call.result
           IN  /\ r.value.recommended_queue = "Shipment_Initiation_Brkg_Inland_SI"
               /\ r.value.confidence_score = 50
    /\ shipment_calls.routing_call.kind = "determine_routing" =>
           shipment_calls.routing_call.result
               = determine_routing(new_shipment_agent(""),
                                   shipment_calls.routing_call.content)
    /\ shipment_agent.client = "none" => shipment_calls.api_calls = 0

\* a call of determine_routing leaves the number of client calls as it was
DeterministicStepSparesClient ==
    (shipment_calls'.calls # shipment_calls.calls
         /\ shipment_calls'.last = "determine_routing")
    => shipment_calls'.api_calls = shipment_calls.api_calls

(***************************************************************************)
(* C15: a failure of the secondary classifier stays inside                 *)
(* analyze_with_claude.  When the agent has no client, the client call     *)
(* raises or the reply is not JSON, the method does not raise and returns  *)
(* the recommendation Shipment_Initiation_Brkg_Inland_SI with confidence   *)
(* score 0.5; determine_routing never calls the client, and what it        *)
(* returns for a content is what an agent without client, on which         *)
(* analyze_with_claude was never called, returns for it.                   *)
(***************************************************************************)
C15_FailureIsolated ==
    /\ []FailureContained
    /\ [][DeterministicStepSparesClient]_vars

\* the client of an agent raised inside analyze_with_claude, and
\* determine_routing then chose a queue other than the default one
C15_Witness ==
    /\ shipment_agent.client = "client"
    /\ shipment_calls.claude_call.kind = "analyze_with_claude"
    /\ shipment_calls.claude_call.reply.kind = "raises"
    /\ shipment_calls.api_calls >= 1
    /\ shipment_calls.last = "determine_routing"
    /\ shipment_calls.routing_call.kind = "determine_routing"
    /\ shipment_calls.routing_call.result.queue = "Account_Inquiry_US"

(***************************************************************************)
(* C17: every action in the list _plan_autonomous_actions returns is one   *)
(* of the autonomous_actions configured for the queue of the routing       *)
(* decision, for every decision and urgency level.                         *)
(***************************************************************************)
C17_OnlyConfiguredActions ==
    shipment_calls.routing_call.kind = "determine_routing" =>
        LET analysis == shipment_calls.routing_call.result.analysis
            configured ==
                shipment_agent.routing_rules[analysis.routing_decision.queue]
                    .autonomous_actions
        IN  \A i \in DOMAIN analysis.autonomous_actions :
                in_list(analysis.autonomous_actions[i], configured)

(***************************************************************************)
(* C27: after any sequence of route_email calls made one after the other   *)
(* on one agent, total_processed is the sum of the per-queue counts and    *)
(* the number of calls that returned a decision, each per-queue count is   *)
(* the number of decisions returned for that queue, and no count ever      *)
(* decreases.                                                              *)
(***************************************************************************)
StatisticsConsistent ==
    /\ routing_stats.total_processed
           = SumOver(routing_stats.rules_matched, RoutingQueue)
    /\ routing_stats.total_processed = SumOver(decisions_returned, RoutingQueue)
    /\ \A q \in RoutingQueue :
           routing_stats.rules_matched[q] = decisions_returned[q]

CountsNeverDecrease ==
    /\ routing_stats'.total_processed >= routing_stats.total_processed
    /\ \A q \in RoutingQueue :
           routing_stats'.rules_matched[q] >= routing_stats.rules_matched[q]

C27_StatisticsConsistency ==
    /\ []StatisticsConsistent
    /\ [][CountsNeverDecrease]_vars

\* decisions for two different queues have been counted and a later call
\* failed
C27_Witness ==
    /\ phase = "returned"
    /\ DOMAIN routing_result = {}
    /\ routing_stats.total_processed >= 2
    /\ \E q1, q2 \in RoutingQueue :
           /\ q1 # q2
           /\ decisions_returned[q1] >= 1
           /\ decisions_returned[q2] >= 1

(***************************************************************************)
(* Vocabulary for the decisions of the ShipmentRoutingAgent.               *)
(***************************************************************************)
DefaultShipmentQueue == "Shipment_Initiation_Brkg_Inland_SI"

\* determine_routing has been called; its content and what it returned
RoutingDetermined == shipment_calls.routing_call.kind = "determine_routing"

LegalDocumentation(content) ==
    HasAny(content.text, {"power of attorney", "poa", "account setup",
                          "legal authorization"})

ExternalCarrierSender(content) ==
    HasAny(content.from, {"evergreen", "carrier", "shipping"})

PreAlertIndicator(content) ==
    HasAny(content.subject, {"pre-alert", "prealert", "advance notice"})

ArrivalNoticeIndicator(content) ==
    HasAny(content.text, {"arrival notice", "port arrival", "vessel arrived"})

(***************************************************************************)
(* C26: for every content, the confidence of a decision of                 *)
(* _make_routing_decision for a queue other than the default queue lies    *)
(* between 0.70 and 0.95 inclusive (70 and 95 hundredths), whatever the    *)
(* urgency level.                                                          *)
(***************************************************************************)
C26_GraduatedConfidenceRange ==
    RoutingDetermined =>
        LET r == shipment_calls.routing_call.result
        IN  r.queue # DefaultShipmentQueue
                => (70 <= r.confidence /\ r.confidence <= 95)

(***************************************************************************)
(* C28: _make_routing_decision picks the queue by the fixed priority       *)
(* legal documentation > external carrier sender > pre-alert indicator >   *)
(* arrival-notice indicator > default; the queue is one of the five keys   *)
(* of routing_queues, so determine_routing finds its description; and the  *)
(* confidence is at least 0.8 exactly when the queue is not the default    *)
(* queue.                                                                  *)
(***************************************************************************)
C28_DecisionChain ==
    RoutingDetermined =>
        LET c == shipment_calls.routing_call.content
            r == shipment_calls.routing_call.result
        IN  /\ r.queue =
                   IF LegalDocumentation(c) THEN "Account_Inquiry_US"
                   ELSE IF ExternalCarrierSender(c) THEN "ORD_SI-Non_UPS_Shipments"
                   ELSE IF PreAlertIndicator(c) THEN "ORD_Pre-Alert_SI"
                   ELSE IF ArrivalNoticeIndicator(c) THEN "ORD_Ocean_Arrival_Notices"
                   ELSE DefaultShipmentQueue
            /\ r.queue \in DOMAIN shipment_agent.routing_rules
            /\ Cardinality(DOMAIN shipment_agent.routing_rules) = 5
            /\ r.description = shipment_agent.routing_rules[r.queue].description
            /\ (r.confidence >= 80) <=> (r.queue # DefaultShipmentQueue)

\* a content from a carrier with a pre-alert subject and an arrival notice
\* in its body went to the carrier queue
C28_Witness ==
    /\ RoutingDetermined
    /\ ~LegalDocumentation(shipment_calls.routing_call.content)
    /\ ExternalCarrierSender(shipment_calls.routing_call.content)
    /\ PreAlertIndicator(shipment_calls.routing_call.content)
    /\ ArrivalNoticeIndicator(shipment_calls.routing_call.content)
    /\ shipment_calls.routing_call.result.queue = "ORD_SI-Non_UPS_Shipments"

(***************************************************************************)
(* C29: the urgency level of _assess_urgency lies in 3..5; the decision's  *)
(* escalation_recommended is true iff the level is at least 4; an          *)
(* escalation_alert action is planned iff escalation_recommended is true;  *)
(* and the urgency record's escalation_needed is true whenever the level   *)
(* is at least 4.                                                          *)
(***************************************************************************)
C29_UrgencyEscalationConsistent ==
    RoutingDetermined =>
        LET a == shipment_calls.routing_call.result.analysis
            level == a.urgency_analysis.level
        IN  /\ level \in 3..5
            /\ a.routing_decision.escalation_recommended <=> (level >= 4)
            /\ in_list("escalation_alert", a.autonomous_actions)
                   <=> a.routing_decision.escalation_recommended
            /\ (level >= 4) => a.urgency_analysis.escalation_needed


(***************************************************************************)
(* C22  The keyword matcher reports which keywords matched: for a keyword  *)
(* rule that matches, the matched-keyword information attached to the      *)
(* decision lists every keyword that was found in the text, and only       *)
(* those, in the order in which they appear in the rule's keyword list.    *)
(***************************************************************************)
\* the keywords of a list that occur in a text, in the order of the list
MatchedKeywords(text, keywords) ==
    LET Found(k) == text # "" /\ Contains(lower(text), lower(k))
    IN  SelectSeq(keywords, Found)

\* the keyword list of a rule and the text it was found in, <<>> when the
\* rule matched on something else than keywords of the subject or body
KeywordsFoundBy(email_data, rule) ==
    LET conditions == rule.conditions
    IN  IF "subject_contains" \in DOMAIN conditions
        THEN MatchedKeywords(email_data.subject, conditions.subject_contains)
        ELSE IF "subject_or_body_contains" \in DOMAIN conditions
        THEN LET kws == conditions.subject_or_body_contains
             IN  IF MatchedKeywords(email_data.subject, kws) # <<>>
                 THEN MatchedKeywords(email_data.subject, kws)
                 ELSE MatchedKeywords(email_data.body, kws)
        ELSE <<>>

\* the text after the ": " of a match reason that carries a keyword list
ReasonEndsWith(reason, list) ==
    LET tail == ": " \o ListRepr(list)
    IN  /\ Len(reason) >= Len(tail)
        /\ SubSeq(reason, Len(reason) - Len(tail) + 1, Len(reason)) = tail

C22_MatchedKeywordsReported ==
    Decided =>
        \A n \in DOMAIN routing_rules :
            LET rule == routing_rules[n]
                found == KeywordsFoundBy(routing_result.email_data, rule)
            IN  (rule.rule_id = routing_result.rule_matched /\ found # <<>>)
                    => ReasonEndsWith(routing_result.match_reason, found)


(***************************************************************************)
(* Vocabulary of the helper calls.                                         *)
(***************************************************************************)
CheckReturned == helper_call.fn = "check_text_contains" /\ helper_call.done

ExtractReturned == helper_call.fn = "extract_from_domain" /\ helper_call.done

\* keyword k occurs in text t when letter case is ignored: some stretch of t
\* of the length of k reads as k once both are put in capitals
OccursIgnoringCase(t, k) ==
    \E i \in 0..(Len(t) - Len(k)) : upper(SubSeq(t, i + 1, i + Len(k))) = upper(k)

(***************************************************************************)
(* C21  Keyword matcher result: check_text_contains(text, keywords)        *)
(* returns false when text is empty or absent, and otherwise returns true  *)
(* iff at least one keyword, compared case-insensitively, is a substring   *)
(* of text (so it is false for an empty keyword list and non-empty text).  *)
(***************************************************************************)
C21_KeywordMatcherResult ==
    CheckReturned =>
        LET text == helper_call.arg
            keywords == helper_call.keywords
        IN  /\ (text.kind = "none" \/ text.value = "") => ~helper_call.found
            /\ (text.kind = "str" /\ text.value # "") =>
                   (helper_call.found
                        <=> \E n \in 1..Len(keywords) :
                                OccursIgnoringCase(text.value, keywords[n]))

\* "RE: poa request" was searched for "POA" and the keyword was found
C21_Witness ==
    /\ CheckReturned
    /\ helper_call.arg = PyStr("RE: poa request")
    /\ helper_call.keywords = <<"POA">>
    /\ helper_call.found


(***************************************************************************)
(* C23  Domain extraction takes the part after the last "@": for every     *)
(* address, extract_from_domain returns "@" followed by the substring      *)
(* after the last "@" character of the address, and returns the empty      *)
(* string when the address contains no "@" (for an address with two "@"    *)
(* characters the domain is what follows the second one).  The address is  *)
(* what AddressOf takes from the sender; an address that ends in "@" has   *)
(* nothing after its last "@" and is left to C24.                          *)
(***************************************************************************)
HasAt(addr) == \E i \in 1..Len(addr) : CharAt(addr, i) = "@"

C23_DomainAfterLastAt ==
    (ExtractReturned /\ helper_call.arg.kind = "str") =>
        LET addr == AddressOf(helper_call.arg.value)
        IN  /\ ~HasAt(addr) => helper_call.domain = ""
            /\ (HasAt(addr) /\ DomainOf(addr) # "")
                   => helper_call.domain = "@" \o DomainOf(addr)

(***************************************************************************)
(* C24  extract_from_domain never raises: for every input, including       *)
(* empty, absent (None) or malformed sender values, it returns a string    *)
(* that is either empty or begins with "@" followed by at least one        *)
(* character; routing then proceeds and falls to the default rule if       *)
(* nothing else matches.                                                   *)
(***************************************************************************)
\* the message routed in SpecHelper carries the sender of the helper call
SenderRouted ==
    /\ helper_call.fn = "extract_from_domain"
    /\ phase = "returned"

C24_ExtractNeverRaises ==
    /\ ExtractReturned =>
           /\ ~helper_call.raised
           /\ \/ helper_call.domain = ""
              \/ /\ Len(helper_call.domain) >= 2
                 /\ CharAt(helper_call.domain, 1) = "@"
    /\ SenderRouted =>
           /\ routing_error = ""
           /\ DOMAIN routing_result # {}
           /\ LET ed == routing_result.email_data
              IN  (/\ ~AccountInSubject(ed)
                   /\ extract_from_domain(ed.from) # ConfiguredDomain)
                      => /\ routing_result.routing_queue
                                = SHIPMENT_INITIATION_BRKG_INLAND_SI
                         /\ routing_result.rule_matched = 1

\* "user@" was handed to extract_from_domain, which returned "", and the
\* message from that sender was routed by the default rule
C24_Witness ==
    /\ ExtractReturned
    /\ helper_call.arg = PyStr("user@")
    /\ helper_call.domain = ""
    /\ ~helper_call.raised
    /\ phase = "returned"
    /\ routing_result.email_data.from = "user@"
    /\ routing_result.rule_matched = 1

(***************************************************************************)
(* C25  Angle-bracket handling in extract_from_domain: when the sender     *)
(* string contains an angle-bracket-delimited part, the domain is computed *)
(* only from the text between the brackets (text outside the brackets,     *)
(* and an empty bracket pair, never contribute a domain); when it contains *)
(* no brackets the domain is computed from the whole trimmed string.       *)
(***************************************************************************)
\* the texts a sender holds between a "<" and the first ">" after it
BracketParts(s) ==
    {SubSeq(s, i + 1, NextPos(s, ">", i) - 1) :
         i \in {j \in 1..Len(s) : /\ CharAt(s, j) = "<"
                                  /\ NextPos(s, ">", j) <= Len(s)}}

\* the domain the second search of the method finds in an address
DomainIn(addr) ==
    LET dm == AtStarts(addr)
    IN  IF dm # {}
        THEN "@" \o SubSeq(addr, Min(dm) + 1, NextPos(addr, "@", Min(dm)) - 1)
        ELSE ""

C25_AngleBracketHandling ==
    (ExtractReturned /\ helper_call.arg.kind = "str") =>
        LET s == helper_call.arg.value
        IN  IF BracketParts(s) # {}
            THEN helper_call.domain \in {DomainIn(t) : t \in BracketParts(s)}
            ELSE helper_call.domain = DomainIn(strip(s))


(***************************************************************************)
(* C30  Isolation of concurrent .msg extraction: when two callers run      *)
(* extract_text_from_file on different .msg uploads concurrently, each     *)
(* call returns the text of its own upload (never the other's and never an *)
(* error caused by the other call), and after every call returns,          *)
(* successfully or not, the shared temporary file temp.msg no longer       *)
(* exists.                                                                 *)
(***************************************************************************)
ExtractionReturned(c) == extractions[c].pc = "returned"

NoExtractionRunning ==
    /\ \A c \in Callers : extractions[c].pc \in {"idle", "returned"}
    /\ \E c \in Callers : ExtractionReturned(c)

C30_MsgExtractionIsolated ==
    /\ \A c \in Callers :
           (ExtractionReturned(c) /\ IsOutlookMessage(extractions[c].upload))
               => /\ ~extractions[c].failed
                  /\ extractions[c].result = msg_email_text(extractions[c].upload)
    /\ NoExtractionRunning => ~temp_msg.exists

====
